---- MODULE Spec2Model ----
(***************************************************************************)
(* Model of server/core/companies_redis.py: the company leaderboard kept   *)
(* in a Redis sorted set (the score index) and one Redis hash per company  *)
(* (the metadata records), the bulk insert set_init_data, the score update *)
(* update_company_market_capitalization and the ranking queries            *)
(* get_ranks_by_sort_key / get_ranks_by_symbols.                           *)
(*                                                                         *)
(* Every Redis command is one atomic step (the server executes commands    *)
(* one at a time); the Python code between two commands is local to its    *)
(* caller and is folded into the step of the command that follows it.      *)
(* Three callers run concurrently: the loader (set_init_data), a writer    *)
(* (update_company_market_capitalization) and a reader (one query at a     *)
(* time).                                                                  *)
(***************************************************************************)
EXTENDS Integers, Sequences, FiniteSets, TLC

VARIABLES
    file,         \* the parsed companies_data.json (fixed after Init)
    leaderboard,  \* the sorted set REDIS_LEADERBOARD: <<member, score>> ascending
    hashes,       \* the Redis hashes: key -> (field -> value)
    ld,           \* the loader: position in set_init_data and what it returned
    q,            \* the reader: position and locals of the running query
    snap,         \* history: the store as it was when the running query started
    hist,         \* history: the sorted-set states that existed during the query
    nUpdates,     \* number of score updates issued so far
    nQueries,     \* number of queries issued so far
    log           \* history: the writes to the sorted set, each with the set before it

vars == <<file, leaderboard, hashes, ld, q, snap, hist, nUpdates, nQueries, log>>

----------------------------------------------------------------------------
(* Bounds of the model *)

\* score updates issued in one behaviour
MaxUpdates == 1
\* score updates issued in one behaviour of the specifications that log the writes
MaxBurst == 2
\* queries issued in one behaviour
MaxQueries == 1
\* companies in the long seed file (more than the ten of top10/bottom10)
NumLong == 11
\* bits of significand of the scaled-down floating-point score
\* (a Redis score is an IEEE double with 53)
Precision == 8

----------------------------------------------------------------------------
(* Strings are sequences of one-character strings. *)

Alphabet == <<":", "A", "B", "C", "a", "b", "c", "d", "e", "f", "g", "h",
              "i", "j", "k", "l", "m", "n", "o", "p", "z">>

Ord(c) == CHOOSE i \in 1..Len(Alphabet) : Alphabet[i] = c

\* str.lower() on one character
LowerChar(c) ==
    CASE c = "A" -> "a"
      [] c = "B" -> "b"
      [] c = "C" -> "c"
      [] OTHER -> c

\* str.lower()
Lower(s) == [i \in 1..Len(s) |-> LowerChar(s[i])]

\* byte-wise comparison of two strings (memcmp, shorter first on a common prefix)
RECURSIVE LexLess(_, _)
LexLess(s, t) ==
    IF t = <<>> THEN FALSE
    ELSE IF s = <<>> THEN TRUE
    ELSE IF Head(s) # Head(t) THEN Ord(Head(s)) < Ord(Head(t))
    ELSE LexLess(Tail(s), Tail(t))

\* s[i:] starts with p
StartsWithAt(s, i, p) ==
    /\ i + Len(p) - 1 <= Len(s)
    /\ \A k \in 1..Len(p) : s[i + k - 1] = p[k]

\* str.replace(old, ''): every non-overlapping occurrence of old, left to right
RECURSIVE ReplaceFrom(_, _, _)
ReplaceFrom(s, i, old) ==
    IF i > Len(s) THEN <<>>
    ELSE IF StartsWithAt(s, i, old) THEN ReplaceFrom(s, i + Len(old), old)
    ELSE <<s[i]>> \o ReplaceFrom(s, i + 1, old)

\* settings.REDIS_PREFIX
REDIS_PREFIX == <<"p">>

\* f"{prefix}:{symbol}"
add_prefix_to_symbol(prefix, symbol) == prefix \o <<":">> \o symbol

\* symbol.replace(f'{prefix}:', '')
remove_prefix_to_symbol(prefix, symbol) == ReplaceFrom(symbol, 1, prefix \o <<":">>)

----------------------------------------------------------------------------
(* Scores: Redis keeps a score as a floating-point number. The model keeps  *)
(* the integers a float of Precision significand bits represents exactly.   *)

Abs(x) == IF x < 0 THEN 0 - x ELSE x

RECURSIVE Pow2(_)
Pow2(n) == IF n = 0 THEN 1 ELSE 2 * Pow2(n - 1)

\* the unit in the last place for magnitude a: the least 2^e with a < 2^(Precision+e)
RECURSIVE Ulp(_, _)
Ulp(a, u) == IF a < Pow2(Precision) * u THEN u ELSE Ulp(a, 2 * u)

\* round to nearest representable, ties to even
RoundFloat(x) ==
    LET a  == Abs(x)
        u  == Ulp(a, 1)
        qq == a \div u
        r  == a % u
        up == (2 * r > u) \/ (2 * r = u /\ qq % 2 = 1)
        m  == (IF up THEN qq + 1 ELSE qq) * u
    IN  IF x < 0 THEN 0 - m ELSE m

\* faulty variant: the sign of the increment is dropped
FloatAdd_Magnitude(a, b) == RoundFloat(a + Abs(b))

\* floating-point addition as ZINCRBY performs it
FloatAdd(a, b) == RoundFloat(a + b)

----------------------------------------------------------------------------
(* The Redis sorted set: members ordered by score, equal scores by member.  *)

Member(e) == e[1]
Score(e)  == e[2]

\* the order of the sorted set
EntryLess(a, b) ==
    \/ Score(a) < Score(b)
    \/ Score(a) = Score(b) /\ LexLess(Member(a), Member(b))

Members(lb) == {Member(lb[i]) : i \in 1..Len(lb)}

ZRem(lb, member) == SelectSeq(lb, LAMBDA e : Member(e) # member)

\* faulty variant: among equal scores the newest entry comes first
ZInsert_NewestFirst(lb, e) ==
    LET k == Cardinality({i \in 1..Len(lb) : Score(lb[i]) < Score(e)})
    IN  SubSeq(lb, 1, k) \o <<e>> \o SubSeq(lb, k + 1, Len(lb))

\* insert an entry at its place in the order
ZInsert(lb, e) ==
    LET k == Cardinality({i \in 1..Len(lb) : EntryLess(lb[i], e)})
    IN  SubSeq(lb, 1, k) \o <<e>> \o SubSeq(lb, k + 1, Len(lb))

\* faulty variant: the entry of a member that is already present is kept
ZAdd_KeepsOld(lb, member, score) == ZInsert(lb, <<member, RoundFloat(score)>>)

\* ZADD key score member: add, or overwrite the score and reposition
ZAdd(lb, member, score) == ZInsert(ZRem(lb, member), <<member, RoundFloat(score)>>)

\* ZSCORE key member; <<"None", 0>> stands for Python's None
ZScore(lb, member) ==
    IF member \in Members(lb)
    THEN <<"float", Score(lb[CHOOSE i \in 1..Len(lb) : Member(lb[i]) = member])>>
    ELSE <<"None", 0>>

\* faulty variant: the score changes where the member stands, without repositioning
ZIncrBy_InPlace(lb, amount, member) ==
    IF member \in Members(lb)
    THEN [i \in 1..Len(lb) |->
             IF Member(lb[i]) = member THEN <<member, FloatAdd(Score(lb[i]), amount)>> ELSE lb[i]]
    ELSE Append(lb, <<member, FloatAdd(0, amount)>>)

\* faulty variant: an absent member is left absent
ZIncrBy_PresentOnly(lb, amount, member) ==
    IF member \in Members(lb)
    THEN ZInsert(ZRem(lb, member), <<member, FloatAdd(ZScore(lb, member)[2], amount)>>)
    ELSE lb

\* faulty variant: the old entry is taken out by its score, and with it every
\* member that has the same score
ZIncrBy_ByScore(lb, amount, member) ==
    LET cur == ZScore(lb, member)
        old == IF cur[1] = "None" THEN 0 ELSE cur[2]
        rest == IF cur[1] = "None" THEN lb
                ELSE SelectSeq(lb, LAMBDA e : Score(e) # old)
    IN  ZInsert(rest, <<member, FloatAdd(old, amount)>>)

\* faulty variant: the amount is written as the score (ZADD for ZINCRBY)
ZIncrBy_Overwrite(lb, amount, member) ==
    ZInsert(ZRem(lb, member), <<member, FloatAdd(0, amount)>>)

\* ZINCRBY key amount member: an absent member starts from 0
ZIncrBy(lb, amount, member) ==
    LET cur == ZScore(lb, member)
        old == IF cur[1] = "None" THEN 0 ELSE cur[2]
    IN  ZInsert(ZRem(lb, member), <<member, FloatAdd(old, amount)>>)

Reverse(s) == [i \in 1..Len(s) |-> s[Len(s) + 1 - i]]

\* score_cast_func=str
StrCast(e) == <<Member(e), <<"str", Score(e)>>>>

\* the index arithmetic of ZRANGE: negative indexes count from the end, the
\* range is clamped to the set
RangeOf(s, start, end) ==
    LET n  == Len(s)
        s0 == IF start < 0 THEN start + n ELSE start
        e0 == IF end < 0 THEN end + n ELSE end
        s1 == IF s0 < 0 THEN 0 ELSE s0
        e1 == IF e0 >= n THEN n - 1 ELSE e0
    IN  IF s1 > e1 \/ s1 >= n THEN <<>> ELSE SubSeq(s, s1 + 1, e1 + 1)

\* redis_client.zrange(name, start, end, withscores=True, score_cast_func=str)
ZRange(lb, start, end) ==
    LET r == RangeOf(lb, start, end) IN [i \in 1..Len(r) |-> StrCast(r[i])]

\* redis_client.zrevrange(name, start, end, withscores=True, score_cast_func=str)
ZRevRange(lb, start, end) ==
    LET r == RangeOf(Reverse(lb), start, end) IN [i \in 1..Len(r) |-> StrCast(r[i])]

----------------------------------------------------------------------------
(* The Redis hashes *)

NoFields == [f \in {} |-> ""]

\* HGETALL key: the empty dict for a key that does not exist
HGetAll(h, key) == IF key \in DOMAIN h THEN h[key] ELSE NoFields

\* HSET key field value
HSet(h, key, field, value) ==
    LET old == HGetAll(h, key)
    IN  [k \in DOMAIN h \cup {key} |->
            IF k = key
            THEN [f \in DOMAIN old \cup {field} |-> IF f = field THEN value ELSE old[f]]
            ELSE h[k]]

----------------------------------------------------------------------------
(* The seed file and the inputs of the requests *)

Company(symbol, marketCap, company, country) ==
    [symbol |-> symbol, marketCap |-> marketCap, company |-> company, country |-> country]

AAA == <<"A", "A", "A">>
BBB == <<"B", "B", "B">>
CCC == <<"C", "C", "C">>

\* three companies, symbols in upper case as in companies_data.json
ShortFile ==
    << Company(AAA, 100, "X", "us"), Company(BBB, 200, "Y", "uk"), Company(CCC, 50, "Z", "de") >>

\* NumLong companies: the three above, then a, b, c, ... with market caps 10, 20, 30, ...
LongFile ==
    ShortFile \o [i \in 1..(NumLong - 3) |-> Company(<<Alphabet[4 + i]>>, 10 * i, "W", "fr")]

\* the files set_init_data is followed through, command by command
Files == {ShortFile}

\* the files of the leaderboards queried after set_init_data has returned
LoadedFiles == {ShortFile, LongFile}

\* the symbols and amounts of update requests; z is in no file
UpdateSymbols == {Lower(CCC), <<"z">>}
Amounts == {100, 200}

\* the symbols and amounts of the logged update requests: two symbols of the
\* files; 207 and -207 take a score past the exactly represented integers
WriteSymbols == {Lower(CCC), Lower(AAA)}
WriteAmounts == {100, -100, 207, -207}

\* the same company twice in a row
DupFile ==
    << Company(CCC, 50, "Z", "de"), Company(CCC, 50, "Z", "de"), Company(AAA, 100, "X", "us") >>

\* a symbol that contains the prefix and the colon
PrefixFile ==
    << Company(<<"a">>, 10, "W", "fr"), Company(<<"p", ":", "a">>, 20, "V", "it") >>

\* the files of the specification of the writers
WriteFiles == {ShortFile, DupFile}

\* the files of the leaderboards queried under a burst of updates
BurstFiles == {ShortFile, PrefixFile}

\* the keys of get_ranks_by_sort_key requests; "worst" is no RankSortKeys value
SortKeys == {"all", "top10", "bottom10", "worst"}

\* the symbol lists of get_ranks_by_symbols requests
SymbolLists ==
    { <<Lower(CCC), Lower(AAA)>>, <<Lower(AAA), Lower(BBB), Lower(CCC)>>,
      <<Lower(BBB), <<"z">>>> }

\* the key of a symbol in Redis
Key(symbol) == add_prefix_to_symbol(REDIS_PREFIX, symbol)

----------------------------------------------------------------------------
(* Initial state: an empty Redis, set_init_data about to insert the first   *)
(* company, no request running.                                            *)

Idle ==
    [pc |-> "idle", key |-> "", symbols |-> <<>>, caps |-> <<>>, companies |-> <<>>,
     start_rank |-> 0, increase_factor |-> 0, results |-> <<>>, i |-> 0]

NoHashes == [k \in {} |-> NoFields]

Init ==
    /\ file \in Files
    /\ leaderboard = <<>>
    /\ hashes = NoHashes
    /\ ld = [pc |-> "zadd", i |-> 1, ret |-> "running"]
    /\ q = Idle
    /\ snap = [leaderboard |-> <<>>, hashes |-> NoHashes]
    /\ hist = {}
    /\ nUpdates = 0
    /\ nQueries = 0
    /\ log = <<>>

\* the store after set_init_data has inserted the first k companies of f
RECURSIVE Loaded(_, _)
Loaded(f, k) ==
    IF k = 0 THEN [leaderboard |-> <<>>, hashes |-> NoHashes]
    ELSE LET prev == Loaded(f, k - 1)
             key  == add_prefix_to_symbol(REDIS_PREFIX, Lower(f[k].symbol))
         IN  [leaderboard |-> ZAdd(prev.leaderboard, key, f[k].marketCap),
              hashes |-> HSet(HSet(prev.hashes, key, "company", f[k].company),
                              key, "country", f[k].country)]

\* set_init_data has returned normally: the requests work on the loaded store
InitLoaded ==
    /\ file \in LoadedFiles
    /\ leaderboard = Loaded(file, Len(file)).leaderboard
    /\ hashes = Loaded(file, Len(file)).hashes
    /\ ld = [pc |-> "done", i |-> Len(file), ret |-> "None"]
    /\ q = Idle
    /\ snap = [leaderboard |-> leaderboard, hashes |-> hashes]
    /\ hist = {}
    /\ nUpdates = 0
    /\ nQueries = 0
    /\ log = <<>>

\* the writers: set_init_data and the update requests, no reader
InitWrites ==
    /\ file \in WriteFiles
    /\ leaderboard = <<>>
    /\ hashes = NoHashes
    /\ ld = [pc |-> "zadd", i |-> 1, ret |-> "running"]
    /\ q = Idle
    /\ snap = [leaderboard |-> <<>>, hashes |-> NoHashes]
    /\ hist = {}
    /\ nUpdates = 0
    /\ nQueries = 0
    /\ log = <<>>

\* set_init_data has returned normally: requests and a burst of updates
InitBurst ==
    /\ file \in BurstFiles
    /\ leaderboard = Loaded(file, Len(file)).leaderboard
    /\ hashes = Loaded(file, Len(file)).hashes
    /\ ld = [pc |-> "done", i |-> Len(file), ret |-> "None"]
    /\ q = Idle
    /\ snap = [leaderboard |-> leaderboard, hashes |-> hashes]
    /\ hist = {}
    /\ nUpdates = 0
    /\ nQueries = 0
    /\ log = <<>>

\* a query is between its first and its last Redis command
Active(qr) == qr.pc \in {"zscore", "hgetall"}

\* the sorted-set states the running query overlaps
Observe(lb) == IF Active(q) THEN hist \cup {lb} ELSE hist

----------------------------------------------------------------------------
(* set_init_data: for each company zadd, hset company, hset country *)

LdSymbol == Key(Lower(file[ld.i].symbol))

set_init_data_zadd ==
    /\ ld.pc = "zadd"
    /\ leaderboard' = ZAdd(leaderboard, LdSymbol, file[ld.i].marketCap)
    /\ ld' = [ld EXCEPT !.pc = "hset_company"]
    /\ hist' = Observe(leaderboard')
    /\ UNCHANGED <<log, file, hashes, q, snap, nUpdates, nQueries>>

\* the same command, entered in the log
set_init_data_zadd_logged ==
    /\ ld.pc = "zadd"
    /\ leaderboard' = ZAdd(leaderboard, LdSymbol, file[ld.i].marketCap)
    /\ ld' = [ld EXCEPT !.pc = "hset_company"]
    /\ hist' = Observe(leaderboard')
    /\ log' = Append(log, [op |-> "zadd", member |-> LdSymbol,
                           amount |-> file[ld.i].marketCap, lb |-> leaderboard])
    /\ UNCHANGED <<file, hashes, q, snap, nUpdates, nQueries>>

set_init_data_hset_company ==
    /\ ld.pc = "hset_company"
    /\ hashes' = HSet(hashes, LdSymbol, "company", file[ld.i].company)
    /\ ld' = [ld EXCEPT !.pc = "hset_country"]
    /\ UNCHANGED <<log, file, leaderboard, q, snap, hist, nUpdates, nQueries>>

set_init_data_hset_country ==
    /\ ld.pc = "hset_country"
    /\ hashes' = HSet(hashes, LdSymbol, "country", file[ld.i].country)
    /\ ld' = IF ld.i < Len(file)
             THEN [ld EXCEPT !.pc = "zadd", !.i = ld.i + 1]
             ELSE [ld EXCEPT !.pc = "done", !.ret = "None"]
    /\ UNCHANGED <<log, file, leaderboard, q, snap, hist, nUpdates, nQueries>>

\* a Redis command of the loop raises ConnectionError: the handler logs and
\* returns, so the caller gets None as after a complete run
set_init_data_ConnectionError ==
    /\ ld.pc \in {"zadd", "hset_company", "hset_country"}
    /\ ld' = [ld EXCEPT !.pc = "failed", !.ret = "None"]
    /\ UNCHANGED <<log, file, leaderboard, hashes, q, snap, hist, nUpdates, nQueries>>

----------------------------------------------------------------------------
(* update_company_market_capitalization: one ZINCRBY *)

update_company_market_capitalization ==
    /\ nUpdates < MaxUpdates
    /\ \E amount \in Amounts, symbol \in UpdateSymbols :
          leaderboard' = ZIncrBy(leaderboard, amount, Key(symbol))
    /\ nUpdates' = nUpdates + 1
    /\ hist' = Observe(leaderboard')
    /\ UNCHANGED <<log, file, hashes, ld, q, snap, nQueries>>

\* the same call, entered in the log, with the inputs of the writers
update_company_market_capitalization_logged ==
    /\ nUpdates < MaxBurst
    /\ \E amount \in WriteAmounts, symbol \in WriteSymbols :
          /\ leaderboard' = ZIncrBy(leaderboard, amount, Key(symbol))
          /\ log' = Append(log, [op |-> "zincrby", member |-> Key(symbol),
                                 amount |-> amount, lb |-> leaderboard])
    /\ nUpdates' = nUpdates + 1
    /\ hist' = Observe(leaderboard')
    /\ UNCHANGED <<file, hashes, ld, q, snap, nQueries>>

----------------------------------------------------------------------------
(* The queries *)

\* the loop of get_result has run out: return json.dumps(results)
Finish(qr) == IF qr.i > Len(qr.companies) THEN [qr EXCEPT !.pc = "done"] ELSE qr

\* faulty variant: ranks start at start_index, not start_index + 1
get_result_ZeroBased(qr, companies, start_index, desc) ==
    Finish([qr EXCEPT !.pc = "hgetall",
                      !.companies = companies,
                      !.start_rank = IF desc THEN start_index
                                     ELSE Len(companies) - start_index - 1,
                      !.increase_factor = IF desc THEN 1 ELSE -1,
                      !.results = <<>>,
                      !.i = 1])

\* get_result up to its first HGETALL
get_result(qr, companies, start_index, desc) ==
    Finish([qr EXCEPT !.pc = "hgetall",
                      !.companies = companies,
                      !.start_rank = IF desc THEN start_index + 1
                                     ELSE Len(companies) - start_index,
                      !.increase_factor = IF desc THEN 1 ELSE -1,
                      !.results = <<>>,
                      !.i = 1])

get_zrange(qr, lb, start_index, stop_index, desc) ==
    get_result(qr,
               IF desc THEN ZRevRange(lb, start_index, stop_index)
                       ELSE ZRange(lb, start_index, stop_index),
               start_index, desc)

\* faulty variant: top10 asks for positions 0..10
RankSortKeys_TopEleven(qr, lb, key) ==
    CASE key = "all"      -> get_zrange(qr, lb, 0, -1, TRUE)
      [] key = "top10"    -> get_zrange(qr, lb, 0, 10, TRUE)
      [] key = "bottom10" -> get_zrange(qr, lb, 0, 9, FALSE)
      [] OTHER            -> [qr EXCEPT !.pc = "ValueError"]

\* faulty variant: a key that is no RankSortKeys value is served as 'all'
RankSortKeys_DefaultAll(qr, lb, key) ==
    CASE key = "top10"    -> get_zrange(qr, lb, 0, 9, TRUE)
      [] key = "bottom10" -> get_zrange(qr, lb, 0, 9, FALSE)
      [] OTHER            -> get_zrange(qr, lb, 0, -1, TRUE)

\* the query a sort key selects, on the sorted set lb
RankSortKeys(qr, lb, key) ==
    CASE key = "all"      -> get_zrange(qr, lb, 0, -1, TRUE)
      [] key = "top10"    -> get_zrange(qr, lb, 0, 9, TRUE)
      [] key = "bottom10" -> get_zrange(qr, lb, 0, 9, FALSE)
      [] OTHER            -> [qr EXCEPT !.pc = "ValueError"]

\* a request starts when the previous one has returned or raised
StartQuery ==
    /\ ~Active(q)
    /\ nQueries < MaxQueries
    /\ nQueries' = nQueries + 1
    /\ snap' = [leaderboard |-> leaderboard, hashes |-> hashes]
    /\ hist' = {leaderboard}

get_ranks_by_sort_key ==
    /\ StartQuery
    /\ \E key \in SortKeys :
          q' = RankSortKeys([Idle EXCEPT !.key = key], leaderboard, key)
    /\ UNCHANGED <<log, file, leaderboard, hashes, ld, nUpdates>>

\* faulty variant: the pairs are built in the order of the leaderboard, best first
ZScoreStep_ByScore(qr) ==
    LET caps  == Append(qr.caps, ZScore(leaderboard, Key(qr.symbols[qr.i])))
        pairs == [k \in 1..Len(caps) |-> <<Key(qr.symbols[k]), caps[k]>>]
        place(k) == 1 + Cardinality({m \in 1..Len(pairs) :
                                       \/ pairs[m][2][2] > pairs[k][2][2]
                                       \/ pairs[m][2][2] = pairs[k][2][2] /\ m < k})
    IN  IF qr.i < Len(qr.symbols)
        THEN [qr EXCEPT !.caps = caps, !.i = qr.i + 1]
        ELSE get_result([qr EXCEPT !.caps = caps],
                        [p \in 1..Len(pairs) |->
                            pairs[CHOOSE k \in 1..Len(pairs) : place(k) = p]],
                        0, TRUE)

\* one ZSCORE of the list comprehension; after the last one the pairs are built
\* and get_result starts
ZScoreStep(qr) ==
    LET caps == Append(qr.caps, ZScore(leaderboard, Key(qr.symbols[qr.i])))
    IN  IF qr.i < Len(qr.symbols)
        THEN [qr EXCEPT !.caps = caps, !.i = qr.i + 1]
        ELSE get_result([qr EXCEPT !.caps = caps],
                        [k \in 1..Len(caps) |-> <<Key(qr.symbols[k]), caps[k]>>],
                        0, TRUE)

get_ranks_by_symbols ==
    /\ StartQuery
    /\ \E symbols \in SymbolLists :
          q' = ZScoreStep([Idle EXCEPT !.pc = "zscore", !.key = "symbols",
                                       !.symbols = symbols, !.i = 1])
    /\ UNCHANGED <<log, file, leaderboard, hashes, ld, nUpdates>>

get_ranks_by_symbols_zscore ==
    /\ q.pc = "zscore"
    /\ q' = ZScoreStep(q)
    /\ UNCHANGED <<log, file, leaderboard, hashes, ld, snap, hist, nUpdates, nQueries>>

\* faulty variant: the score is read again when the record is built
GetResultStep_LateScore(qr, h) ==
    LET company      == qr.companies[qr.i]
        symbol       == company[1]
        late         == ZScore(leaderboard, symbol)
        market_cap   == IF late[1] = "None" THEN company[2] ELSE <<company[2][1], late[2]>>
        company_info == HGetAll(h, symbol)
    IN  IF {"company", "country"} \subseteq DOMAIN company_info
        THEN Finish([qr EXCEPT
                 !.results = Append(@, [company   |-> company_info["company"],
                                        country   |-> company_info["country"],
                                        marketCap |-> market_cap,
                                        rank      |-> qr.start_rank,
                                        symbol    |-> remove_prefix_to_symbol(REDIS_PREFIX, symbol)]),
                 !.start_rank = @ + qr.increase_factor,
                 !.i = @ + 1])
        ELSE [qr EXCEPT !.pc = "KeyError"]

\* one iteration of the loop of get_result: HGETALL and the record built from it;
\* company_info['company'] or ['country'] of a missing field raises KeyError
GetResultStep(qr, h) ==
    LET company      == qr.companies[qr.i]
        symbol       == company[1]
        market_cap   == company[2]
        company_info == HGetAll(h, symbol)
    IN  IF {"company", "country"} \subseteq DOMAIN company_info
        THEN Finish([qr EXCEPT
                 !.results = Append(@, [company   |-> company_info["company"],
                                        country   |-> company_info["country"],
                                        marketCap |-> market_cap,
                                        rank      |-> qr.start_rank,
                                        symbol    |-> remove_prefix_to_symbol(REDIS_PREFIX, symbol)]),
                 !.start_rank = @ + qr.increase_factor,
                 !.i = @ + 1])
        ELSE [qr EXCEPT !.pc = "KeyError"]

get_result_hgetall ==
    /\ q.pc = "hgetall"
    /\ q' = GetResultStep(q, hashes)
    /\ UNCHANGED <<log, file, leaderboard, hashes, ld, snap, hist, nUpdates, nQueries>>

----------------------------------------------------------------------------

Next ==
    \/ set_init_data_zadd
    \/ set_init_data_hset_company
    \/ set_init_data_hset_country
    \/ set_init_data_ConnectionError
    \/ update_company_market_capitalization
    \/ get_ranks_by_sort_key
    \/ get_ranks_by_symbols
    \/ get_ranks_by_symbols_zscore
    \/ get_result_hgetall

Spec == Init /\ [][Next]_vars

\* the requests alone, on a loaded store
NextLoaded ==
    \/ update_company_market_capitalization
    \/ get_ranks_by_sort_key
    \/ get_ranks_by_symbols
    \/ get_ranks_by_symbols_zscore
    \/ get_result_hgetall

SpecLoaded == InitLoaded /\ [][NextLoaded]_vars

\* set_init_data and the update requests, every write to the sorted set logged
NextWrites ==
    \/ set_init_data_zadd_logged
    \/ set_init_data_hset_company
    \/ set_init_data_hset_country
    \/ set_init_data_ConnectionError
    \/ update_company_market_capitalization_logged

SpecWrites == InitWrites /\ [][NextWrites]_vars

\* the requests on a loaded store under a burst of logged updates
NextBurst ==
    \/ update_company_market_capitalization_logged
    \/ get_ranks_by_sort_key
    \/ get_ranks_by_symbols
    \/ get_ranks_by_symbols_zscore
    \/ get_result_hgetall

SpecBurst == InitBurst /\ [][NextBurst]_vars

----------------------------------------------------------------------------
(* Vocabulary of the properties *)

\* the N of top10 / bottom10
N == 10

Min(a, b) == IF a < b THEN a ELSE b

\* the metadata record of key has both fields
Complete(h, key) == {"company", "country"} \subseteq DOMAIN HGetAll(h, key)

\* the keys with a metadata record
WithMetadata(h) == {k \in DOMAIN h : Complete(h, k)}

\* every member of the index is an entity: it has its metadata record
AllEntities(st) == \A m \in Members(st.leaderboard) : Complete(st.hashes, m)

\* the running or last query is a get_ranks_by_sort_key(key) / has returned
Returned(key) == q.key = key /\ q.pc = "done"

\* the symbols of a result list, as keys of the store
ResultKeys(results) == [j \in 1..Len(results) |-> Key(results[j].symbol)]

\* the number carried by a marketCap
CapValue(cap) == cap[2]

----------------------------------------------------------------------------
\* C1: get_ranks_by_sort_key('bottom10') on a leaderboard of n entities returns
\* the min(N, n) lowest-scoring entities, lowest first, with ranks n, n-1, ...:
\* the lowest-scoring entity carries rank n, its global position, also when n > N.
C1_BottomRanksAreGlobal ==
    Returned("bottom10") =>
        LET lb == snap.leaderboard
            n  == Len(lb)
            k  == Min(N, n)
        IN  /\ Len(q.results) = k
            /\ \A j \in 1..k :
                  /\ Key(q.results[j].symbol) = Member(lb[j])
                  /\ q.results[j].rank = n - j + 1

----------------------------------------------------------------------------
\* C2: whenever no insert is in progress, the symbols of the score index are
\* exactly the symbols that have a metadata record, also after an increment
\* of a symbol that was never inserted.
C2_StoresHoldSameSymbols ==
    ld.pc \in {"zadd", "done"} => Members(leaderboard) = WithMetadata(hashes)

----------------------------------------------------------------------------
\* C3: an insert appears atomic to a concurrent reader: with inserts as the only
\* writers, no query meets a symbol that is in the score index without its
\* metadata record, so the only query that can fail is one asking for a symbol
\* that is in neither store.
C3_InsertAtomicToReaders ==
    (nUpdates = 0 /\ ld.pc # "failed" /\ q.pc = "KeyError") =>
        q.companies[q.i][2][1] = "None"

----------------------------------------------------------------------------
\* C4: after any sequence of inserts and increments the full descending range
\* ZREVRANGE 0 -1, and the records get_ranks_by_sort_key('all') builds from it,
\* are in non-increasing score order.
NonIncreasing(scores) == \A j \in 1..(Len(scores) - 1) : scores[j] >= scores[j + 1]

C4_FullRangeNonIncreasing ==
    /\ LET r == ZRevRange(leaderboard, 0, -1)
       IN  NonIncreasing([j \in 1..Len(r) |-> CapValue(r[j][2])])
    /\ q.key = "all" =>
          /\ NonIncreasing([j \in 1..Len(q.companies) |-> CapValue(q.companies[j][2])])
          /\ NonIncreasing([j \in 1..Len(q.results) |-> CapValue(q.results[j].marketCap)])

\* the scenario: AAA=100, BBB=200, CCC=50, CCC incremented by 200, and 'all'
\* returns CCC, BBB, AAA
C4_Witness ==
    /\ Returned("all")
    /\ ResultKeys(q.results) = <<Key(Lower(CCC)), Key(Lower(BBB)), Key(Lower(AAA))>>
    /\ CapValue(q.results[1].marketCap) = 250

----------------------------------------------------------------------------
\* C5: get_ranks_by_sort_key('all') on a leaderboard of n entities does not fail
\* and returns n records, one per symbol of the index, none repeated or missing,
\* with ranks 1..n in result order and each marketCap the score of its symbol.
C5_AllReturnsEveryEntity ==
    (q.key = "all" /\ AllEntities(snap)) =>
        /\ q.pc # "KeyError"
        /\ q.pc = "done" =>
              LET lb == snap.leaderboard
                  n  == Len(lb)
              IN  /\ Len(q.results) = n
                  /\ {Key(q.results[j].symbol) : j \in 1..n} = Members(lb)
                  /\ \A j \in 1..n :
                        /\ q.results[j].rank = j
                        /\ ZScore(lb, Key(q.results[j].symbol))
                              = <<"float", CapValue(q.results[j].marketCap)>>

\* 'all' has returned the three companies of the file, after an update moved one
C5_Witness ==
    /\ Returned("all")
    /\ AllEntities(snap)
    /\ Len(q.results) = 3
    /\ nUpdates > 0


----------------------------------------------------------------------------
\* the whole loop of get_result, run at once on the metadata store h
RECURSIVE Run(_, _)
Run(qr, h) == IF qr.pc = "hgetall" THEN Run(GetResultStep(qr, h), h) ELSE qr

\* C6: on a leaderboard of n entities get_ranks_by_sort_key('top10') does not
\* fail, also when n < N, and returns exactly the first min(N, n) records of
\* get_ranks_by_sort_key('all') on the same leaderboard: same symbols, same
\* order, same ranks.
C6_TopIsPrefixOfAll ==
    (q.key = "top10" /\ AllEntities(snap)) =>
        /\ q.pc # "KeyError"
        /\ q.pc = "done" =>
              LET all == Run(RankSortKeys([Idle EXCEPT !.key = "all"], snap.leaderboard, "all"),
                             snap.hashes)
              IN  /\ all.pc = "done"
                  /\ q.results = SubSeq(all.results, 1, Min(N, Len(snap.leaderboard)))

\* top10 has returned N records of a leaderboard of more than N entities
C6_Witness ==
    /\ Returned("top10")
    /\ AllEntities(snap)
    /\ Len(snap.leaderboard) > N
    /\ Len(q.results) = N

----------------------------------------------------------------------------
\* the symbol has a score and a metadata record
Known(st, symbol) ==
    /\ Key(symbol) \in Members(st.leaderboard)
    /\ Complete(st.hashes, Key(symbol))

\* C7: get_ranks_by_symbols on k known symbols does not fail and returns k
\* records, in the order of the request, with ranks 1..k, whatever the place of
\* each symbol in the leaderboard.
C7_RanksAreRequestPositions ==
    (q.key = "symbols" /\ \A j \in 1..Len(q.symbols) : Known(snap, q.symbols[j])) =>
        /\ q.pc # "KeyError"
        /\ q.pc = "done" =>
              /\ Len(q.results) = Len(q.symbols)
              /\ \A j \in 1..Len(q.symbols) :
                    /\ q.results[j].rank = j
                    /\ q.results[j].symbol = q.symbols[j]

\* the request [ccc, aaa] has returned ccc with rank 1 while ccc is the last of
\* the three companies of the leaderboard
C7_Witness ==
    /\ Returned("symbols")
    /\ q.symbols = <<Lower(CCC), Lower(AAA)>>
    /\ Len(q.results) = 2
    /\ Len(leaderboard) = 3
    /\ Member(leaderboard[1]) = Key(Lower(CCC))
    /\ Known(snap, Lower(CCC)) /\ Known(snap, Lower(AAA))

----------------------------------------------------------------------------
Entries(lb) == {lb[i] : i \in 1..Len(lb)}

\* the index entry a result record stands for
ResEntry(r) == <<Key(r.symbol), CapValue(r.marketCap)>>

\* results are the first `limit` entries of the sorted set lb, from the top
\* (desc) or from the bottom: entries of lb, in strict order, nothing better
\* left out
RangeOfState(lb, results, desc, limit) ==
    LET Before(a, b) == IF desc THEN EntryLess(b, a) ELSE EntryLess(a, b)
        got == {ResEntry(results[j]) : j \in 1..Len(results)}
    IN  /\ Len(results) = Min(limit, Len(lb))
        /\ got \subseteq Entries(lb)
        /\ \A j, k \in 1..Len(results) :
              j < k => Before(ResEntry(results[j]), ResEntry(results[k]))
        /\ \A e \in Entries(lb) \ got : \A g \in got : Before(g, e)

\* C8: a get_ranks_by_sort_key query that overlaps inserts and increments
\* returns the range of one single state of the index, a state that existed
\* between its start and its return: no symbol twice, all scores and the order
\* of that one state.
C8_RangeOfOneState ==
    (q.pc = "done" /\ q.key \in {"all", "top10", "bottom10"}) =>
        \E lb \in hist :
            RangeOfState(lb, q.results, q.key # "bottom10",
                         IF q.key = "all" THEN Len(lb) ELSE N)

\* a range query has returned two or more records while the index changed
C8_Witness ==
    /\ q.pc = "done" /\ q.key \in {"all", "top10", "bottom10"}
    /\ Cardinality(hist) > 1
    /\ Len(q.results) >= 2

----------------------------------------------------------------------------
\* C9: get_ranks_by_symbols handles a symbol without score or metadata as not
\* found (omitted or marked): the call does not fail on it and returns no
\* record with an absent field.
C9_NotFoundIsHandled ==
    q.key = "symbols" =>
        /\ q.pc # "KeyError"
        /\ \A j \in 1..Len(q.results) : q.results[j].marketCap[1] # "None"

----------------------------------------------------------------------------
\* C10: when a command of set_init_data fails, the symbol being inserted is in
\* neither store or has its score, company and country all written.
C10_InsertAllOrNothing ==
    ld.pc = "failed" =>
        \/ LdSymbol \notin Members(leaderboard) /\ LdSymbol \notin DOMAIN hashes
        \/ LdSymbol \in Members(leaderboard) /\ Complete(hashes, LdSymbol)

----------------------------------------------------------------------------
\* company k of the file is in both stores
Inserted(k) ==
    LET key == Key(Lower(file[k].symbol))
    IN  key \in Members(leaderboard) /\ Complete(hashes, key)

\* C11: a backend failure reaches the caller as an error: set_init_data does
\* not return normally with a partial or empty effect, so whenever it has
\* returned normally every company of the file is in both stores.
C11_NormalReturnMeansLoaded ==
    ld.ret = "None" => \A k \in 1..Len(file) : Inserted(k)

----------------------------------------------------------------------------
\* C12: get_ranks_by_sort_key with a key that is none of 'all', 'top10',
\* 'bottom10' fails with an error, reads no ranking and returns none, and
\* leaves the index and the metadata store unchanged.
C12_InvalidKeyFails ==
    [][(q' # q /\ q'.key \notin {"all", "top10", "bottom10", "symbols"}) =>
          /\ q'.pc = "ValueError"
          /\ q'.companies = <<>> /\ q'.results = <<>>
          /\ leaderboard' = leaderboard /\ hashes' = hashes]_vars

\* the call with the key 'worst' has failed on a leaderboard that holds entities
C12_Witness ==
    /\ q.key = "worst" /\ q.pc = "ValueError"
    /\ Len(leaderboard) >= 2
    /\ AllEntities([leaderboard |-> leaderboard, hashes |-> hashes])

----------------------------------------------------------------------------
(* Vocabulary of the properties of the writes *)

\* the sorted set after the k-th logged write
After(k) == IF k < Len(log) THEN log[k + 1].lb ELSE leaderboard

\* the logged writes that are update requests
Updates == {k \in 1..Len(log) : log[k].op = "zincrby"}

\* the score of the written member before and after the k-th logged write
ScoreBefore(k) == ZScore(log[k].lb, log[k].member)
ScoreAfter(k)  == ZScore(After(k), log[k].member)

\* x is one of the numbers a score represents exactly
Exact(x) == x % Ulp(Abs(x), 1) = 0

----------------------------------------------------------------------------
----------------------------------------------------------------------------
\* the k-th logged write repeats the insert logged just before it
RepeatedInsert(k) ==
    /\ log[k].op = "zadd" /\ log[k - 1].op = "zadd"
    /\ log[k].member = log[k - 1].member
    /\ log[k].amount = log[k - 1].amount

\* the second of two identical companies at the head of the file is being
\* inserted or has just been inserted
SecondOfTwo ==
    /\ file[1] = file[2]
    /\ ld.i = 2 \/ (ld.i = 3 /\ ld.pc = "zadd")

\* C14: inserting the same (symbol, score, company, country) twice in a row
\* leaves the index and the metadata store as inserting it once does; the
\* number of entities does not grow.
C14_InsertTwiceIsInsertOnce ==
    /\ \A k \in 2..Len(log) :
          RepeatedInsert(k) => After(k) = log[k].lb /\ Len(After(k)) = Len(After(k - 1))
    /\ SecondOfTwo =>
          /\ hashes = Loaded(file, 1).hashes
          /\ Cardinality(DOMAIN hashes) = 1

\* the second insert of the same company has been completed
C14_Witness ==
    /\ file[1] = file[2] /\ ld.i = 3 /\ ld.pc = "zadd"
    /\ \E k \in 2..Len(log) : RepeatedInsert(k)

----------------------------------------------------------------------------
\* the logged writes j < k are an update by d and the update by -d that
\* undoes it: same member, present before j, not written in between
RoundTrip(j, k) ==
    /\ j \in Updates /\ k \in Updates /\ j < k
    /\ log[k].member = log[j].member
    /\ log[k].amount = 0 - log[j].amount
    /\ ScoreBefore(j)[1] = "float"
    /\ \A i \in (j + 1)..(k - 1) : log[i].member # log[j].member

RoundTrips == {p \in (1..Len(log)) \X (1..Len(log)) : RoundTrip(p[1], p[2])}

\* the score in between, before it is rounded
Between(j) == ScoreBefore(j)[2] + log[j].amount

\* the statement as written: the score comes back exactly, and with it the
\* order, whatever the two numbers are
C15_RoundTripExact ==
    \A p \in RoundTrips :
        /\ ScoreAfter(p[2]) = ScoreBefore(p[1])
        /\ p[2] = p[1] + 1 => After(p[2]) = log[p[1]].lb

\* C15: an update by d followed by an update by -d of a present symbol, with
\* no other write of that symbol in between, restores the score and the order
\* exactly when the score in between is representable; otherwise the score
\* comes back within one unit in the last place of the score in between.
C15_RoundTripUpToRounding ==
    \A p \in RoundTrips :
        LET j == p[1]
            k == p[2]
        IN  /\ ScoreAfter(k)[1] = "float"
            /\ Abs(ScoreAfter(k)[2] - ScoreBefore(j)[2]) <= Ulp(Abs(Between(j)), 1)
            /\ Exact(Between(j)) =>
                  /\ ScoreAfter(k) = ScoreBefore(j)
                  /\ k = j + 1 => After(k) = log[j].lb

\* a round trip through a score that is not representable has drifted
C15_Witness ==
    \E p \in RoundTrips :
        /\ ~Exact(Between(p[1]))
        /\ ScoreAfter(p[2]) # ScoreBefore(p[1])
        /\ Len(log[p[1]].lb) >= 2

----------------------------------------------------------------------------
\* the states of the index the writes went through, the present one included
IndexStates == {log[k].lb : k \in 1..Len(log)} \cup {leaderboard}

\* the sequence is strictly ascending in (score, member)
Canonical(lb) == \A i, j \in 1..Len(lb) : i < j => EntryLess(lb[i], lb[j])

\* two members of the index have the same score
Tied(lb) == \E i, j \in 1..Len(lb) : i < j /\ Score(lb[i]) = Score(lb[j])

\* C16: the order of entities with equal scores is deterministic: the sequence
\* the index is read in is a function of the symbols and scores it holds
\* (ascending by score, equal scores by symbol), so reading an unchanged index
\* twice gives the same sequence, and two indexes with the same symbols and
\* scores read the same whatever the order of the inserts and updates was.
C16_TieOrderDeterministic ==
    /\ Canonical(leaderboard)
    /\ \A a, b \in IndexStates :
          Entries(a) = Entries(b) =>
              /\ a = b
              /\ ZRevRange(a, 0, -1) = ZRevRange(b, 0, -1)
              /\ ZRange(a, 0, N - 1) = ZRange(b, 0, N - 1)

\* two symbols are tied, and the one written last stands first
C16_Witness ==
    /\ Len(log) >= 2
    /\ Len(leaderboard) >= 2
    /\ Score(leaderboard[1]) = Score(leaderboard[2])
    /\ log[Len(log)].member = Member(leaderboard[1])
    /\ Member(leaderboard[2]) \in Members(log[Len(log)].lb)
    /\ Member(leaderboard[1]) \notin Members(log[Len(log)].lb)

----------------------------------------------------------------------------
\* this step is an update request: it appends a "zincrby" entry to the log
UpdateStep ==
    /\ Len(log') = Len(log) + 1
    /\ log'[Len(log')].op = "zincrby"

\* C17: update_company_market_capitalization changes only the score of the
\* one symbol: the metadata store is unchanged and every other symbol has the
\* score it had, or is absent as it was.
C17_UpdateFrame ==
    [][UpdateStep =>
         /\ hashes' = hashes
         /\ \A m \in Members(leaderboard) \cup Members(leaderboard') :
               m # log'[Len(log')].member =>
                   ZScore(leaderboard', m) = ZScore(leaderboard, m)]_vars

\* the last write was an update that changed the score of one of several
\* members, one of them tied with it, while metadata is stored
C17_Witness ==
    /\ Len(log) \in Updates
    /\ Len(log[Len(log)].lb) >= 2
    /\ ScoreAfter(Len(log)) # ScoreBefore(Len(log))
    /\ \E e \in Entries(log[Len(log)].lb) :
          /\ Member(e) # log[Len(log)].member
          /\ <<"float", Score(e)>> = ScoreBefore(Len(log))
    /\ DOMAIN hashes # {}

----------------------------------------------------------------------------
\* C18: a get_ranks_by_symbols query that overlaps updates returns scores
\* that all belong to one single state of the index: at some point between
\* its start and its return every requested symbol had the returned score.
C18_ScoresOfOneState ==
    (q.key = "symbols" /\ q.pc = "done") =>
        \E lb \in hist :
            \A j \in 1..Len(q.symbols) :
                /\ j <= Len(q.results)
                /\ q.results[j].marketCap = ZScore(lb, Key(q.symbols[j]))

----------------------------------------------------------------------------
\* the last logged insert of member m, 0 when there is none
LastInsert(m) ==
    LET ins == {k \in 1..Len(log) : log[k].op = "zadd" /\ log[k].member = m}
    IN  IF ins = {} THEN 0 ELSE CHOOSE k \in ins : \A j \in ins : j <= k

\* the updates of m that no later insert has overwritten
UpdatesOf(m) == {k \in Updates : log[k].member = m /\ k > LastInsert(m)}

\* the score the updates of m start from; an absent member starts from 0
InitialScore(m) ==
    LET first == IF Len(log) = 0 THEN leaderboard ELSE log[1].lb
        st    == IF LastInsert(m) = 0 THEN first ELSE After(LastInsert(m))
    IN  ZScore(st, m)[2]

RECURSIVE SumOfDeltas(_, _)
SumOfDeltas(m, k) ==
    IF k > Len(log) THEN 0
    ELSE (IF k \in UpdatesOf(m) THEN log[k].amount ELSE 0) + SumOfDeltas(m, k + 1)

\* what the roundings of the additions can add up to, in half units
RECURSIVE RoundingSlack(_, _)
RoundingSlack(m, k) ==
    IF k > Len(log) THEN 0
    ELSE (IF k \in UpdatesOf(m) /\ ~Exact(Between(k))
          THEN Ulp(Abs(Between(k)), 1) ELSE 0) + RoundingSlack(m, k + 1)

Updated == {m \in Members(leaderboard) : UpdatesOf(m) # {}}

\* the statement as written: the score is the initial score plus the sum of
\* the deltas, whatever the numbers are
C19_SumOfDeltasExact ==
    \A m \in Updated :
        ZScore(leaderboard, m) = <<"float", InitialScore(m) + SumOfDeltas(m, 1)>>

\* C19: concurrent updates of one symbol are never lost: in every
\* interleaving, with no insert overwriting the symbol meanwhile, the score is
\* the initial score plus the sum of all deltas, exactly when every
\* intermediate sum is representable and otherwise up to the rounding of the
\* additions that were not.
C19_NoLostUpdate ==
    \A m \in Updated :
        LET now == ZScore(leaderboard, m)
            sum == InitialScore(m) + SumOfDeltas(m, 1)
        IN  /\ now[1] = "float"
            /\ 2 * Abs(now[2] - sum) <= RoundingSlack(m, 1)

\* two updates of a symbol that was inserted before them have been applied
C19_Witness ==
    \E m \in Updated :
        /\ LastInsert(m) > 0
        /\ Cardinality(UpdatesOf(m)) >= 2
        /\ RoundingSlack(m, 1) = 0
        /\ ZScore(leaderboard, m)[2] # InitialScore(m)

----------------------------------------------------------------------------
\* C20: the symbol in every result record is exactly the symbol the caller
\* supplied: taking the prefix off the key gives back the symbol the key was
\* made of, also when the symbol itself contains the prefix followed by ':'.
C20_SymbolRoundTrip ==
    q.pc = "done" =>
        \A j \in 1..Len(q.results) :
            /\ add_prefix_to_symbol(REDIS_PREFIX, q.results[j].symbol) = q.companies[j][1]
            /\ \A k \in 1..Len(file) :
                  Key(Lower(file[k].symbol)) = q.companies[j][1] =>
                      q.results[j].symbol = Lower(file[k].symbol)

====
